---------------------------- MODULE Spec2Model ----------------------------
(***************************************************************************)
(* Global Medical Passport (src/app.py): a Streamlit script backed by a    *)
(* hosted table store.  Two state machines are modelled over one set of    *)
(* variables:                                                              *)
(*                                                                         *)
(*   Spec        the application: one browser session (st.session_state),  *)
(*               the four backend tables, and one action per script run    *)
(*               (login form submit, each dashboard button, logout, a      *)
(*               plain rerun).                                             *)
(*   ParserSpec  deep_parse_medical_cv applied to every PDF of a bounded   *)
(*               family of inputs.                                         *)
(*                                                                         *)
(* Python strings that the code inspects character by character (the CV    *)
(* text, the detected blocks) are sequences of one-character strings.      *)
(***************************************************************************)
EXTENDS Integers, Sequences, FiniteSets, TLC

VARIABLES
    \* st.session_state (src/app.py:75-80)
    authenticated, user_email, parsed_data,
    \* what the last script run put on the screen
    view,
    \* the hosted tables
    profiles, rotations, procedures, projects,
    \* history variables (not program state)
    signed_in, parsed_from, last_save, writes,
    \* ParserSpec: the uploaded file, and the call's outcome
    pdf_file, parse_pc, parse_result

vars == <<authenticated, user_email, parsed_data, view, profiles, rotations,
          procedures, projects, signed_in, parsed_from, last_save, writes,
          pdf_file, parse_pc, parse_result>>

appVars == <<authenticated, user_email, parsed_data, view, profiles, rotations,
             procedures, projects, signed_in, parsed_from, last_save, writes>>

parserVars == <<pdf_file, parse_pc, parse_result>>

\* Python's None
None == "None"

Range(s) == {s[i] : i \in DOMAIN s}

----------------------------------------------------------------------------
(* Bounds *)

\* pages of an uploaded PDF (ParserSpec)
MaxPages == 3

\* backend writes (upserts and inserts) in one behaviour of Spec
MaxWrites == 2

----------------------------------------------------------------------------
(* Python string operations used by the parser *)

Digits == {"0","1","2","3","4","5","6","7","8","9"}

Months ==
    { <<"J","a","n">>, <<"F","e","b">>, <<"M","a","r">>, <<"A","p","r">>,
      <<"M","a","y">>, <<"J","u","n">>, <<"J","u","l">>, <<"A","u","g">>,
      <<"S","e","p">>, <<"O","c","t">>, <<"N","o","v">>, <<"D","e","c">> }

\* Length of the match of  \d{4}|Jan|...|Dec  starting exactly at position i
\* (0: no match there).
MatchLen(text, i) ==
    IF i + 3 <= Len(text) /\ \A j \in i..(i + 3) : text[j] \in Digits
    THEN 4
    ELSE IF i + 2 <= Len(text) /\ SubSeq(text, i, i + 2) \in Months
         THEN 3
         ELSE 0

\* re.split(r'(...)', text): the pieces between matches and, because the
\* pattern is one capturing group, the matches themselves; empty pieces kept.
\* The scan resumes after each match, at the leftmost position that matches.
RECURSIVE ReSplitFrom(_, _)
ReSplitFrom(text, start) ==
    LET found == {i \in start..Len(text) : MatchLen(text, i) > 0}
    IN  IF found = {}
        THEN << SubSeq(text, start, Len(text)) >>
        ELSE LET i == CHOOSE x \in found : \A y \in found : x <= y
                 n == MatchLen(text, i)
             IN  << SubSeq(text, start, i - 1), SubSeq(text, i, i + n - 1) >>
                 \o ReSplitFrom(text, i + n)

re_split(text) == ReSplitFrom(text, 1)

UpperToLower ==
    ("A" :> "a") @@ ("B" :> "b") @@ ("C" :> "c") @@ ("D" :> "d") @@
    ("E" :> "e") @@ ("F" :> "f") @@ ("G" :> "g") @@ ("H" :> "h") @@
    ("I" :> "i") @@ ("J" :> "j") @@ ("K" :> "k") @@ ("L" :> "l") @@
    ("M" :> "m") @@ ("N" :> "n") @@ ("O" :> "o") @@ ("P" :> "p") @@
    ("Q" :> "q") @@ ("R" :> "r") @@ ("S" :> "s") @@ ("T" :> "t") @@
    ("U" :> "u") @@ ("V" :> "v") @@ ("W" :> "w") @@ ("X" :> "x") @@
    ("Y" :> "y") @@ ("Z" :> "z")

\* str.lower()
lower(s) ==
    [i \in 1..Len(s) |-> IF s[i] \in DOMAIN UpperToLower
                         THEN UpperToLower[s[i]] ELSE s[i]]

\* needle in hay
Contains(hay, needle) ==
    \E i \in 1..(Len(hay) - Len(needle) + 1) :
        SubSeq(hay, i, i + Len(needle) - 1) = needle

Whitespace == {" ", "\n", "\t", "\r"}

\* str.strip()
strip(s) ==
    LET keep == {i \in 1..Len(s) : s[i] \notin Whitespace}
    IN  IF keep = {} THEN << >>
        ELSE SubSeq(s, CHOOSE i \in keep : \A j \in keep : i <= j,
                       CHOOSE i \in keep : \A j \in keep : i >= j)

\* "\n".join(parts)
RECURSIVE JoinLines(_)
JoinLines(parts) ==
    IF Len(parts) = 0 THEN << >>
    ELSE IF Len(parts) = 1 THEN parts[1]
    ELSE parts[1] \o <<"\n">> \o JoinLines(Tail(parts))

\* s.split('\n')
RECURSIVE SplitLinesFrom(_, _)
SplitLinesFrom(s, start) ==
    LET found == {i \in start..Len(s) : s[i] = "\n"}
    IN  IF found = {}
        THEN << SubSeq(s, start, Len(s)) >>
        ELSE LET i == CHOOSE x \in found : \A y \in found : x <= y
             IN  << SubSeq(s, start, i - 1) >> \o SplitLinesFrom(s, i + 1)

SplitLines(s) == SplitLinesFrom(s, 1)

\* s[:n]
Prefix(s, n) == SubSeq(s, 1, IF Len(s) < n THEN Len(s) ELSE n)

----------------------------------------------------------------------------
(* deep_parse_medical_cv (src/app.py:101-136) *)

RegistrationKeywords ==
    { <<"g","m","c">>,
      <<"r","e","g","i","s","t","r","a","t","i","o","n">>,
      <<"l","i","c","e","n","c","e">>,
      <<"l","i","c","e","n","s","e">> }

RotationKeywords ==
    { <<"h","o","s","p","i","t","a","l">>,
      <<"t","r","u","s","t">>,
      <<"s","z","p","i","t","a","l">>,
      <<"c","l","i","n","i","c">>,
      <<"d","e","p","a","r","t","m","e","n","t">> }

ProcedureKeywords ==
    { <<"p","r","o","c","e","d","u","r","e">>,
      <<"p","e","r","f","o","r","m","e","d">>,
      <<"i","n","t","u","b","a","t","i","o","n">>,
      <<"s","u","t","u","r","i","n","g">>,
      <<"s","k","i","l","l","s">> }

AcademicKeywords ==
    { <<"a","u","d","i","t">>,
      <<"q","i","p">>,
      <<"r","e","s","e","a","r","c","h">>,
      <<"p","u","b","l","i","s","h","e","d">> }

\* any(k in low_block for k in keywords)
AnyIn(low_block, keywords) == \E k \in keywords : Contains(low_block, k)

Categories == {"rotations", "procedures", "projects", "registrations"}

EmptyStructure ==
    [rotations |-> << >>, procedures |-> << >>,
     projects |-> << >>, registrations |-> << >>]

LenThreshold == 50

\* The order the spec gives: registration > procedure > academic > rotation.
ClassifySpecOrder(current_block) ==
    LET low_block == lower(current_block)
    IN  IF AnyIn(low_block, RegistrationKeywords) THEN "registrations"
        ELSE IF AnyIn(low_block, ProcedureKeywords) THEN "procedures"
        ELSE IF AnyIn(low_block, AcademicKeywords) THEN "projects"
        ELSE IF AnyIn(low_block, RotationKeywords) THEN "rotations"
        ELSE "none"

\* The if/elif chain: the list the block is appended to, "none" when no
\* branch is taken.
Classify(current_block) ==
    LET low_block == lower(current_block)
    IN  IF AnyIn(low_block, RegistrationKeywords) THEN "registrations"
        ELSE IF AnyIn(low_block, RotationKeywords) THEN "rotations"
        ELSE IF AnyIn(low_block, ProcedureKeywords) THEN "procedures"
        ELSE IF AnyIn(low_block, AcademicKeywords) THEN "projects"
        ELSE "none"

\* A loop that forgets the reset.
KeepBlock(current_block) == current_block

\* current_block = ""  after a block was tested
ResetBlock(current_block) == << >>

\* One iteration of  for segment in blocks.  st.current_block and
\* st.extracted are the code's locals; st.pos (characters of the text
\* consumed so far) and st.tested (one entry per block that reached the
\* length test: the list it went to and the positions of the text it spans)
\* record the history of the loop.
LoopStep(st, segment) ==
    IF segment = << >> THEN st
    ELSE LET current_block == st.current_block \o segment
             pos == st.pos + Len(segment)
         IN  IF Len(current_block) > LenThreshold
             THEN LET cat == Classify(current_block)
                  IN  [current_block |-> ResetBlock(current_block),
                       extracted |->
                           IF cat = "none" THEN st.extracted
                           ELSE [st.extracted EXCEPT
                                   ![cat] = Append(@, strip(current_block))],
                       pos |-> pos,
                       tested |-> Append(st.tested,
                                    [category |-> cat,
                                     from |-> pos - Len(current_block) + 1,
                                     to |-> pos])]
             ELSE [st EXCEPT !.current_block = current_block, !.pos = pos]

RECURSIVE ParseLoop(_, _, _)
ParseLoop(blocks, k, st) ==
    IF k > Len(blocks) THEN st
    ELSE ParseLoop(blocks, k + 1, LoopStep(st, blocks[k]))

\* "\n".join([p.extract_text() for p in pdf.pages if p.extract_text()])
ExtractText(pdf) ==
    JoinLines(SelectSeq(pdf.pages, LAMBDA p : p # << >>))

RunParser(text) ==
    ParseLoop(re_split(text), 1,
              [current_block |-> << >>, extracted |-> EmptyStructure,
               pos |-> 0, tested |-> << >>])

\* The call: raised is TRUE when pdfplumber.open or extract_text raises (the
\* function has no handler), otherwise value is the returned dictionary.
deep_parse_medical_cv(pdf) ==
    IF ~pdf.readable
    THEN [raised |-> TRUE, value |-> EmptyStructure, tested |-> << >>]
    ELSE LET st == RunParser(ExtractText(pdf))
         IN  [raised |-> FALSE, value |-> st.extracted, tested |-> st.tested]

----------------------------------------------------------------------------
(* Inputs of ParserSpec *)

\* "Royal Infirmary Hospital SHO" (28 characters)
HospitalLine ==
    <<"R","o","y","a","l"," ","I","n","f","i","r","m","a","r","y"," ","H",
      "o","s","p","i","t","a","l"," ","S","H","O">>

\* "Mar 2021 City Hospital cardiology department locum post" (55 characters)
DatedHospitalLine ==
    <<"M","a","r"," ","2","0","2","1"," ","C","i","t","y"," ","H","o","s",
      "p","i","t","a","l"," ","c","a","r","d","i","o","l","o","g","y"," ",
      "d","e","p","a","r","t","m","e","n","t"," ","l","o","c","u","m"," ",
      "p","o","s","t">>

\* "Aug 2022 - Aug 2023" (19 characters)
DateLine ==
    <<"A","u","g"," ","2","0","2","2"," ","-"," ","A","u","g"," ","2","0",
      "2","3">>

\* "covered acute take and ward rounds on call daily" (48 characters)
FillerLine ==
    <<"c","o","v","e","r","e","d"," ","a","c","u","t","e"," ","t","a","k",
      "e"," ","a","n","d"," ","w","a","r","d"," ","r","o","u","n","d","s",
      " ","o","n"," ","c","a","l","l"," ","d","a","i","l","y">>

\* "GMC registration 7654321" (24 characters)
RegistrationLine ==
    <<"G","M","C"," ","r","e","g","i","s","t","r","a","t","i","o","n"," ",
      "7","6","5","4","3","2","1">>

\* "performed suturing and intubation" (33 characters)
ProcedureLine ==
    <<"p","e","r","f","o","r","m","e","d"," ","s","u","t","u","r","i","n",
      "g"," ","a","n","d"," ","i","n","t","u","b","a","t","i","o","n">>

\* "Jan 2020 audit of discharge summaries published in BMJ" (54 characters)
AuditLine ==
    <<"J","a","n"," ","2","0","2","0"," ","a","u","d","i","t"," ","o","f",
      " ","d","i","s","c","h","a","r","g","e"," ","s","u","m","m","a","r",
      "i","e","s"," ","p","u","b","l","i","s","h","e","d"," ","i","n"," ",
      "B","M","J">>

\* What extract_text() may return for a page; << >> is a page without text.
PageTexts ==
    { << >>, HospitalLine, DatedHospitalLine, DateLine, FillerLine,
      RegistrationLine, ProcedureLine, AuditLine }

UnreadableFile == [readable |-> FALSE, pages |-> << >>]

PdfFiles ==
    {UnreadableFile} \cup
    { [readable |-> TRUE, pages |-> ps] :
        ps \in UNION { [1..n -> PageTexts] : n \in 0..MaxPages } }

NoResult == [raised |-> FALSE, value |-> EmptyStructure, tested |-> << >>]



----------------------------------------------------------------------------
(* Global mapping data (src/app.py:31-72) *)

\* list(EQUIVALENCY_MAP.keys())
Tiers ==
    << "Tier 1: Junior (Intern/FY1)", "Tier 2: Intermediate (SHO/Resident)",
       "Tier 3: Senior (Registrar/Fellow)",
       "Tier 4: Expert (Consultant/Attending)" >>

\* list(COUNTRY_KEY_MAP.keys())
CountryLabels ==
    << "United Kingdom", "United States", "Australia", "Ireland", "Canada",
       "Dubai (DHA)", "India & Pakistan", "Nigeria", "China & S.Korea",
       "Europe (General)", "Poland" >>

----------------------------------------------------------------------------
(* Inputs of Spec *)

Users == {"a@nhs.uk", "b@nhs.uk"}

\* the elements of s at the positions in idx, in the order of s
RECURSIVE SubList(_, _)
SubList(s, idx) ==
    IF s = << >> THEN << >>
    ELSE LET rest == SubList(SubSeq(s, 1, Len(s) - 1), idx)
         IN  IF Len(s) \in idx THEN Append(rest, s[Len(s)]) ELSE rest

\* What the multiselect holds when Save Preferences is pressed: nothing, or
\* the first two labels.
CountryChoices ==
    { SubList(CountryLabels, idx) : idx \in { {}, {1, 2} } }

\* The CV uploaded in Spec: four pages.  Parsed, it gives one rotation block
\* (DatedHospitalLine), one procedure block and one project block.
SampleCV ==
    [readable |-> TRUE,
     pages |-> << DatedHospitalLine, DateLine, ProcedureLine, AuditLine >>]

AppFiles == {UnreadableFile, SampleCV}

\* deep_parse_medical_cv on each of them
ParsedAppFiles == [file \in AppFiles |-> deep_parse_medical_cv(file)]

\* What handle_login's calls to the auth service may do.
LoginOutcomes == {"sign_in_raises", "no_user", "set_session_raises", "ok"}

TableNames == {"profiles", "rotations", "procedures", "projects"}

\* "Identify...": the default of the Specialty and Grade inputs of a
\* detected experience
IdentifyDefault == "Identify..."

\* What is typed into the man_rot form: hospital, specialty, grade.  The
\* form validates nothing, so an empty submission is an input too.
ManualRotations ==
    { [hospital |-> <<"S","t"," ","J","o","h","n">>, specialty |-> "Cardiology",
       grade |-> "SHO"],
      [hospital |-> << >>, specialty |-> "", grade |-> ""] }

ManualProcedures == { [procedure |-> <<"L","P">>, level |-> "Supervised"] }

ManualProjects == { [type |-> "Audit", title |-> <<"V","T","E">>] }

----------------------------------------------------------------------------
(* json.dumps / json.loads on a list of strings, as token streams *)

Tok(t, s) == [t |-> t, s |-> s]

RECURSIVE JsonItems(_)
JsonItems(items) ==
    IF items = << >> THEN << >>
    ELSE IF Len(items) = 1 THEN << Tok("string", items[1]) >>
    ELSE << Tok("string", items[1]), Tok(",", "") >> \o JsonItems(Tail(items))



\* json.dumps(items)
JsonDumps(items) == << Tok("[", "") >> \o JsonItems(items) \o << Tok("]", "") >>

\* json.loads(tokens) for the texts JsonDumps writes; anything else raises
\* (JSONDecodeError), which is the value "raise".
JsonLoads(tokens) ==
    IF /\ Len(tokens) >= 2
       /\ tokens[1].t = "["
       /\ tokens[Len(tokens)].t = "]"
       /\ \A i \in 2..(Len(tokens) - 1) :
             tokens[i].t = (IF i % 2 = 0 THEN "string" ELSE ",")
       /\ (Len(tokens) > 2 => Len(tokens) % 2 = 1)
    THEN [i \in 1..((Len(tokens) - 1) \div 2) |-> tokens[2 * i].s]
    ELSE "raise"

\* Python values of the selected_countries cell: a list, or a str holding
\* JSON text
PyList(items) == [type |-> "list", val |-> items]
PyStr(tokens) == [type |-> "str", val |-> tokens]

----------------------------------------------------------------------------
(* The hosted tables (client.table(...)) *)

\* A select that forgets the .eq("user_email", ...) filter.
SelectAll(email, table, fails) ==
    IF email = None THEN << >>
    ELSE IF fails THEN << >>
    ELSE table

\* fetch_user_data(table_name) for st.session_state.user_email = email;
\* fails: the query raises, and the handler returns [].
fetch_user_data(email, table, fails) ==
    IF email = None THEN << >>
    ELSE IF fails THEN << >>
    ELSE SelectSeq(table, LAMBDA row : row.user_email = email)

\* An insert that overwrites the newest stored row.
InsertOverLast(table, row) ==
    IF table = << >> THEN << row >>
    ELSE [table EXCEPT ![Len(table)] = row]

\* client.table(t).insert(row).execute()
InsertRow(table, row) == Append(table, row)

\* An upsert without its conflict target: a plain insert.
UpsertAsInsert(table, row) == Append(table, row)

\* client.table("profiles").upsert(row, on_conflict="user_email").execute()
Upsert(table, row) ==
    IF \E i \in DOMAIN table : table[i].user_email = row.user_email
    THEN [i \in DOMAIN table |->
            IF table[i].user_email = row.user_email THEN row ELSE table[i]]
    ELSE Append(table, row)

----------------------------------------------------------------------------
(* main_dashboard (src/app.py:139-283) *)

DefaultTier == "Tier 1: Junior (Intern/FY1)"

\* An index that always takes the fallback.
SelectboxIndexZero(curr_tier) == 0

\* index=list(EQUIVALENCY_MAP.keys()).index(curr_tier)
\*       if curr_tier in EQUIVALENCY_MAP else 0
SelectboxIndex(curr_tier) ==
    IF curr_tier \in Range(Tiers)
    THEN (CHOOSE i \in DOMAIN Tiers : Tiers[i] = curr_tier) - 1
    ELSE 0

\* default=raw_c if isinstance(raw_c, list) else json.loads(raw_c)
MultiselectDefault(raw_c) ==
    IF raw_c.type = "list" THEN raw_c.val ELSE JsonLoads(raw_c.val)

GateView(error) ==
    [screen |-> "gate", error |-> error,
     profile |-> << >>, rotations |-> << >>, procedures |-> << >>,
     projects |-> << >>, selected_tier |-> None, active_countries |-> << >>]

\* The run died with an uncaught exception: Streamlit shows the traceback
\* and nothing after the point of the raise.
ExceptionView == [GateView(FALSE) EXCEPT !.screen = "exception"]

\* One run of main_dashboard with no button pressed: the four fetches, and
\* the values the Equivalency widgets start from.  failed: the tables whose
\* query raises in this run.
RenderDashboard(email, failed, error, profs, rots, procs, projs) ==
    LET profile == fetch_user_data(email, profs, "profiles" \in failed)
        curr_tier == IF profile # << >> THEN profile[1].global_tier
                     ELSE DefaultTier
        raw_c == IF profile # << >> THEN profile[1].selected_countries
                 ELSE PyList(<< "United Kingdom" >>)
    IN  [screen |-> "dashboard", error |-> error,
         profile |-> profile,
         rotations |-> fetch_user_data(email, rots, "rotations" \in failed),
         procedures |-> fetch_user_data(email, procs, "procedures" \in failed),
         projects |-> fetch_user_data(email, projs, "projects" \in failed),
         selected_tier |-> Tiers[SelectboxIndex(curr_tier) + 1],
         active_countries |-> MultiselectDefault(raw_c)]

\* pd.DataFrame(rows).drop(columns=['id', 'user_email'])
RotationsTable(rows) ==
    [i \in DOMAIN rows |->
        [hospital |-> rows[i].hospital, specialty |-> rows[i].specialty,
         grade |-> rows[i].grade]]

ProfileRow(email, selected_tier, active_countries) ==
    [user_email |-> email, global_tier |-> selected_tier,
     selected_countries |-> PyStr(JsonDumps(active_countries))]

\* The row of the man_rot form; dates and description are not sent (NULL).
ManualRotationRow(email, f) ==
    [user_email |-> email, hospital |-> f.hospital, specialty |-> f.specialty,
     grade |-> f.grade, dates |-> None, description |-> << >>]

\* The row of "Save Entire Experience": h_guess is the block's first line.
DetectedRotationRow(email, block, spec, grade) ==
    [user_email |-> email, hospital |-> SplitLines(block)[1],
     specialty |-> spec, grade |-> grade, dates |-> "See Details",
     description |-> block]

ProcedureRow(email, procedure, level) ==
    [user_email |-> email, procedure |-> procedure, level |-> level,
     count |-> 1]

ProjectRow(email, type, title) ==
    [user_email |-> email, type |-> type, title |-> title]

\* The tables whose query may be drawn to fail in a run for email.  A failed
\* query returns [], which is also what it returns when the user has no row
\* in the table, so only the tables holding rows of the user are drawn: the
\* runs left out end in states the runs kept already reach.
Failable(email, profs, rots, procs, projs) ==
    { t \in TableNames :
        fetch_user_data(email,
            CASE t = "profiles" -> profs
              [] t = "rotations" -> rots
              [] t = "procedures" -> procs
              [] OTHER -> projs,
            FALSE) # << >> }

NoSave == [saved |-> FALSE, tier |-> None, countries |-> << >>]

Init ==
    /\ authenticated = FALSE
    /\ user_email = None
    /\ parsed_data = EmptyStructure
    /\ view = GateView(FALSE)
    /\ profiles = << >>
    /\ rotations = << >>
    /\ procedures = << >>
    /\ projects = << >>
    /\ signed_in = None
    /\ parsed_from = None
    /\ last_save = [u \in Users |-> NoSave]
    /\ writes = 0
    /\ pdf_file = UnreadableFile
    /\ parse_pc = "idle"
    /\ parse_result = NoResult

tables == <<profiles, rotations, procedures, projects>>

\* One more write fits the bound of the model (the code has no such limit).
HasRoom == writes < MaxWrites

\* The login form is submitted with u's credentials: handle_login runs as
\* the on_click callback, then the script runs.
Login(u, outcome) ==
    /\ ~authenticated
    /\ authenticated' = (outcome \in {"set_session_raises", "ok"})
    /\ user_email' = IF outcome \in {"set_session_raises", "ok"}
                     THEN u ELSE user_email
    /\ signed_in' = IF outcome \in {"set_session_raises", "ok"}
                    THEN u ELSE signed_in
    /\ IF authenticated'
       THEN \E failed \in SUBSET Failable(user_email', profiles, rotations,
                                          procedures, projects) :
              view' = RenderDashboard(user_email', failed,
                                      outcome = "set_session_raises",
                                      profiles, rotations, procedures, projects)
       ELSE view' = GateView(outcome = "sign_in_raises")
    /\ UNCHANGED <<parsed_data, parsed_from, tables, last_save,
                   writes, parserVars>>

\* A run with no button pressed (any other widget interaction, "Save to
\* Portfolio", "Compile Professional PDF").
Rerun ==
    /\ IF authenticated
       THEN \E failed \in SUBSET Failable(user_email, profiles, rotations,
                                          procedures, projects) :
              view' = RenderDashboard(user_email, failed, FALSE,
                                      profiles, rotations, procedures, projects)
       ELSE view' = GateView(FALSE)
    /\ UNCHANGED <<authenticated, user_email, signed_in, parsed_data,
                   parsed_from, tables, last_save, writes, parserVars>>

\* "Auto-Populate All Tabs" with an uploaded file.
AutoPopulate(file) ==
    /\ authenticated
    /\ LET res == ParsedAppFiles[file]
       IN  IF res.raised
           THEN /\ view' = ExceptionView
                /\ UNCHANGED <<parsed_data, parsed_from>>
           ELSE /\ parsed_data' = res.value
                /\ parsed_from' = user_email
                /\ \E failed \in SUBSET Failable(user_email, profiles, rotations, procedures, projects) :
                     view' = RenderDashboard(user_email, failed, FALSE,
                                 profiles, rotations, procedures, projects)
    /\ UNCHANGED <<authenticated, user_email, signed_in, tables, last_save,
                   writes, parserVars>>

\* "Logout": sign_out, authenticated = False, st.rerun().
Logout ==
    /\ authenticated
    /\ authenticated' = FALSE
    /\ signed_in' = None
    /\ view' = GateView(FALSE)
    /\ UNCHANGED <<user_email, parsed_data, parsed_from, tables, last_save,
                   writes, parserVars>>

\* "Save Preferences" with the widgets holding tier and countries.
SavePreferences(tier, countries) ==
    /\ authenticated
    /\ HasRoom
    /\ \E failed \in SUBSET Failable(user_email, profiles, rotations, procedures, projects) :
         view' = RenderDashboard(user_email, failed, FALSE,
                                 profiles, rotations, procedures, projects)
    /\ profiles' = Upsert(profiles, ProfileRow(user_email, tier, countries))
    /\ last_save' = [last_save EXCEPT ![signed_in] =
                        [saved |-> TRUE, tier |-> tier, countries |-> countries]]
    /\ writes' = writes + 1
    /\ UNCHANGED <<authenticated, user_email, signed_in, parsed_data,
                   parsed_from, rotations, procedures, projects, parserVars>>

\* "Add Manually": insert, then st.rerun().
AddManually(f) ==
    /\ authenticated
    /\ HasRoom
    /\ rotations' = InsertRow(rotations, ManualRotationRow(user_email, f))
    /\ \E failed \in SUBSET Failable(user_email, profiles, rotations', procedures, projects) :
         view' = RenderDashboard(user_email, failed, FALSE,
                                 profiles, rotations', procedures, projects)
    /\ writes' = writes + 1
    /\ UNCHANGED <<authenticated, user_email, signed_in, parsed_data,
                   parsed_from, profiles, procedures, projects, last_save,
                   parserVars>>

\* "Save Entire Experience i" of a detected rotation, fields left as shown.
SaveExperience(i) ==
    /\ authenticated
    /\ HasRoom
    /\ i \in DOMAIN parsed_data.rotations
    /\ \E failed \in SUBSET Failable(user_email, profiles, rotations, procedures, projects) :
         view' = RenderDashboard(user_email, failed, FALSE,
                                 profiles, rotations, procedures, projects)
    /\ rotations' = InsertRow(rotations,
                        DetectedRotationRow(user_email,
                            parsed_data.rotations[i],
                            IdentifyDefault, IdentifyDefault))
    /\ writes' = writes + 1
    /\ UNCHANGED <<authenticated, user_email, signed_in, parsed_data,
                   parsed_from, profiles, procedures, projects, last_save,
                   parserVars>>

\* "Log this Skill" of a detected procedure block.
LogSkill(i) ==
    /\ authenticated
    /\ HasRoom
    /\ i \in DOMAIN parsed_data.procedures
    /\ \E failed \in SUBSET Failable(user_email, profiles, rotations, procedures, projects) :
         view' = RenderDashboard(user_email, failed, FALSE,
                                 profiles, rotations, procedures, projects)
    /\ procedures' = InsertRow(procedures,
                         ProcedureRow(user_email,
                             Prefix(parsed_data.procedures[i], 50),
                             "Independent"))
    /\ writes' = writes + 1
    /\ UNCHANGED <<authenticated, user_email, signed_in, parsed_data,
                   parsed_from, profiles, rotations, projects, last_save,
                   parserVars>>

\* "Add Skill": insert, then st.rerun().
AddSkill(f) ==
    /\ authenticated
    /\ HasRoom
    /\ procedures' = InsertRow(procedures,
                         ProcedureRow(user_email, f.procedure, f.level))
    /\ \E failed \in SUBSET Failable(user_email, profiles, rotations, procedures', projects) :
         view' = RenderDashboard(user_email, failed, FALSE,
                                 profiles, rotations, procedures', projects)
    /\ writes' = writes + 1
    /\ UNCHANGED <<authenticated, user_email, signed_in, parsed_data,
                   parsed_from, profiles, rotations, projects, last_save,
                   parserVars>>

\* "Save Project" of a detected academic block.
SaveProject(i) ==
    /\ authenticated
    /\ HasRoom
    /\ i \in DOMAIN parsed_data.projects
    /\ \E failed \in SUBSET Failable(user_email, profiles, rotations, procedures, projects) :
         view' = RenderDashboard(user_email, failed, FALSE,
                                 profiles, rotations, procedures, projects)
    /\ projects' = InsertRow(projects,
                       ProjectRow(user_email, "Research",
                                  Prefix(parsed_data.projects[i], 100)))
    /\ writes' = writes + 1
    /\ UNCHANGED <<authenticated, user_email, signed_in, parsed_data,
                   parsed_from, profiles, rotations, procedures, last_save,
                   parserVars>>

\* "Save Manual Project": insert, then st.rerun().
SaveManualProject(f) ==
    /\ authenticated
    /\ HasRoom
    /\ projects' = InsertRow(projects, ProjectRow(user_email, f.type, f.title))
    /\ \E failed \in SUBSET Failable(user_email, profiles, rotations, procedures, projects') :
         view' = RenderDashboard(user_email, failed, FALSE,
                                 profiles, rotations, procedures, projects')
    /\ writes' = writes + 1
    /\ UNCHANGED <<authenticated, user_email, signed_in, parsed_data,
                   parsed_from, profiles, rotations, procedures, last_save,
                   parserVars>>

Next ==
    \/ \E u \in Users, outcome \in LoginOutcomes : Login(u, outcome)
    \/ Rerun
    \/ \E file \in AppFiles : AutoPopulate(file)
    \/ Logout
    \/ \E tier \in Range(Tiers), countries \in CountryChoices :
          SavePreferences(tier, countries)
    \/ \E f \in ManualRotations : AddManually(f)
    \/ \E i \in DOMAIN parsed_data.rotations : SaveExperience(i)
    \/ \E i \in DOMAIN parsed_data.procedures : LogSkill(i)
    \/ \E f \in ManualProcedures : AddSkill(f)
    \/ \E i \in DOMAIN parsed_data.projects : SaveProject(i)
    \/ \E f \in ManualProjects : SaveManualProject(f)

----------------------------------------------------------------------------
(* ParserSpec: deep_parse_medical_cv called on each file of PdfFiles *)

AppIdle ==
    /\ authenticated = FALSE
    /\ user_email = None
    /\ parsed_data = EmptyStructure
    /\ view = GateView(FALSE)
    /\ profiles = << >>
    /\ rotations = << >>
    /\ procedures = << >>
    /\ projects = << >>
    /\ signed_in = None
    /\ parsed_from = None
    /\ last_save = [u \in Users |-> NoSave]
    /\ writes = 0

ParserInit ==
    /\ AppIdle
    /\ pdf_file \in PdfFiles
    /\ parse_pc = "called"
    /\ parse_result = NoResult

\* The call returns.
ParseReturn ==
    /\ parse_pc = "called"
    /\ ~deep_parse_medical_cv(pdf_file).raised
    /\ parse_result' = deep_parse_medical_cv(pdf_file)
    /\ parse_pc' = "returned"
    /\ UNCHANGED <<pdf_file, appVars>>

\* The call raises.
ParseRaise ==
    /\ parse_pc = "called"
    /\ deep_parse_medical_cv(pdf_file).raised
    /\ parse_result' = deep_parse_medical_cv(pdf_file)
    /\ parse_pc' = "raised"
    /\ UNCHANGED <<pdf_file, appVars>>

ParserNext == ParseReturn \/ ParseRaise

Spec == Init /\ [][Next]_vars

ParserSpec == ParserInit /\ [][ParserNext]_vars

----------------------------------------------------------------------------
(* Properties of deep_parse_medical_cv, checked under ParserSpec *)

\* The text the parser worked on.
ParsedText == ExtractText(pdf_file)

HospitalWord == <<"H","o","s","p","i","t","a","l">>

KeywordsOf(category) ==
    CASE category = "registrations" -> RegistrationKeywords
      [] category = "rotations" -> RotationKeywords
      [] category = "procedures" -> ProcedureKeywords
      [] OTHER -> AcademicKeywords

\* The first category of order whose keyword set matches block, or "none".
FirstMatch(block, order) ==
    LET hits == {i \in DOMAIN order : AnyIn(lower(block), KeywordsOf(order[i]))}
    IN  IF hits = {} THEN "none"
        ELSE order[CHOOSE i \in hits : \A j \in hits : i <= j]

CodeOrder == << "registrations", "rotations", "procedures", "projects" >>

SpecOrder == << "registrations", "procedures", "projects", "rotations" >>

\* The piece of the text a tested block spans.
Piece(t) == SubSeq(ParsedText, t.from, t.to)

\* Every tested block is longer than the threshold and went to the first
\* category of order that matches it, and to no other list.
PlacedByOrder(order) ==
    \A k \in DOMAIN parse_result.tested :
        LET t == parse_result.tested[k]
            expected == FirstMatch(Piece(t), order)
        IN  /\ Len(Piece(t)) > LenThreshold
            /\ t.category = expected
            /\ \A c \in Categories :
                 (\E i \in DOMAIN parse_result.value[c] :
                      parse_result.value[c][i] = strip(Piece(t)))
                 <=> (c = expected)

\* C1: whenever the extracted text has a line containing "Hospital", the
\* returned "rotations" list holds a block whose text includes that whole line.
C1_HospitalLineDetected ==
    parse_pc = "returned" =>
        \A line \in Range(SplitLines(ParsedText)) :
            Contains(line, HospitalWord) =>
                \E i \in DOMAIN parse_result.value.rotations :
                    Contains(parse_result.value.rotations[i], line)

\* C9 as stated: tested blocks are placed by the priority order registration >
\* procedure > academic > rotation, so a block with a procedure keyword and a
\* hospital keyword and no registration keyword goes to "procedures".
C9_SpecPriorityOrder == parse_pc = "returned" => PlacedByOrder(SpecOrder)

\* C9 amended: every tested block is longer than the threshold and is placed
\* by the priority order registration > rotation > procedure > academic (first
\* match, or discarded when none matches); a block with a procedure keyword and
\* a hospital keyword and no registration keyword goes to "rotations".
C9_CodePriorityOrder == parse_pc = "returned" => PlacedByOrder(CodeOrder)

\* A returned parse in which a tested block holds a procedure keyword and a
\* rotation keyword and no registration keyword, and sits in "rotations".
C9_Witness ==
    /\ parse_pc = "returned"
    /\ \E k \in DOMAIN parse_result.tested :
         LET low_block == lower(Piece(parse_result.tested[k]))
         IN  /\ AnyIn(low_block, ProcedureKeywords)
             /\ AnyIn(low_block, RotationKeywords)
             /\ ~AnyIn(low_block, RegistrationKeywords)
             /\ \E i \in DOMAIN parse_result.value.rotations :
                  parse_result.value.rotations[i]
                      = strip(Piece(parse_result.tested[k]))

\* The tested blocks that went to category, in the order they were tested.
TestedIn(category) ==
    SelectSeq(parse_result.tested, LAMBDA t : t.category = category)

\* C10: the tested blocks are contiguous pieces of the text, pairwise disjoint
\* and in text order (the accumulator restarts after every tested block,
\* assigned or discarded), and each category list is exactly the stripped
\* pieces assigned to it, once each and in text order.
C10_BlocksDisjointInOrder ==
    parse_pc = "returned" =>
        /\ \A k \in DOMAIN parse_result.tested :
             /\ 1 <= parse_result.tested[k].from
             /\ parse_result.tested[k].from <= parse_result.tested[k].to
             /\ parse_result.tested[k].to <= Len(ParsedText)
        /\ \A k, l \in DOMAIN parse_result.tested :
             k < l => parse_result.tested[k].to < parse_result.tested[l].from
        /\ \A c \in Categories :
             parse_result.value[c] =
                 [j \in DOMAIN TestedIn(c) |-> strip(Piece(TestedIn(c)[j]))]

\* A returned parse with a discarded block followed by two blocks that went
\* to the same list.
C10_Witness ==
    /\ parse_pc = "returned"
    /\ \E k, l, m \in DOMAIN parse_result.tested :
         /\ k < l /\ l < m
         /\ parse_result.tested[k].category = "none"
         /\ parse_result.tested[l].category = "rotations"
         /\ parse_result.tested[m].category = "rotations"
    /\ Len(parse_result.value.rotations) = 2

----------------------------------------------------------------------------
(* Properties of the application, checked under Spec *)

OwnedBy(rows, email) == \A i \in DOMAIN rows : rows[i].user_email = email

\* The render of this step shows the tier and the countries of the user's
\* most recent save; fetched: only when the "profiles" query returned the row.
ShowsLastSave(onlyWhenFetched) ==
    (/\ view'.screen = "dashboard"
     /\ last_save[user_email'].saved
     /\ (onlyWhenFetched => view'.profile # << >>))
    => /\ view'.selected_tier = last_save[user_email'].tier
       /\ view'.active_countries = last_save[user_email'].countries

ManualRotationAdded(onlyWhenFetched) ==
    \A f \in ManualRotations :
        AddManually(f) =>
            /\ Len(rotations') = Len(rotations) + 1
            /\ SubSeq(rotations', 1, Len(rotations)) = rotations
            /\ rotations'[Len(rotations')].user_email = signed_in
            /\ rotations'[Len(rotations')].hospital = f.hospital
            /\ rotations'[Len(rotations')].specialty = f.specialty
            /\ rotations'[Len(rotations')].grade = f.grade
            /\ UNCHANGED <<profiles, procedures, projects>>
            /\ view'.screen = "dashboard"
            /\ (onlyWhenFetched => view'.rotations # << >>) =>
                 /\ view'.rotations # << >>
                 /\ RotationsTable(view'.rotations)[Len(view'.rotations)]
                      = [hospital |-> f.hospital, specialty |-> f.specialty,
                         grade |-> f.grade]

C4_NoCrossUserSessionState ==
    /\ (authenticated /\ parsed_data # EmptyStructure)
           => parsed_from = user_email
    /\ ~authenticated => user_email = None

\* C5: a login that does not complete (sign-in raises, no user returned,
\* set_session raises) shows an error, leaves authenticated False and
\* user_email as it was, and the dashboard is not rendered.
C5_FailedLoginShowsErrorAndStaysOut ==
    [][\A u \in Users, outcome \in LoginOutcomes \ {"ok"} :
          Login(u, outcome) =>
              /\ view'.error
              /\ ~authenticated'
              /\ user_email' = user_email
              /\ view'.screen # "dashboard"]_vars

\* C6: Auto-Populate with a file that cannot be opened leaves parsed_data the
\* empty structure, and no exception reaches the script.
C6_FailedParseGivesEmptyStructure ==
    [][AutoPopulate(UnreadableFile) =>
          /\ parsed_data' = EmptyStructure
          /\ view'.screen # "exception"]_vars

\* C7: the rows a render fetched and shows all carry the logged-in user's
\* email; every row a step adds to a table, or changes in it, carries the
\* logged-in user's email; and a fetch without user_email returns [].
C7_RowsPartitionedByEmail ==
    [][/\ view'.screen = "dashboard" =>
            /\ signed_in' \in Users
            /\ user_email' = signed_in'
            /\ OwnedBy(view'.profile, signed_in')
            /\ OwnedBy(view'.rotations, signed_in')
            /\ OwnedBy(view'.procedures, signed_in')
            /\ OwnedBy(view'.projects, signed_in')
       /\ \A i \in DOMAIN profiles' :
            (i \notin DOMAIN profiles \/ profiles'[i] # profiles[i])
                => profiles'[i].user_email = signed_in
       /\ \A i \in DOMAIN rotations' :
            (i \notin DOMAIN rotations \/ rotations'[i] # rotations[i])
                => rotations'[i].user_email = signed_in
       /\ \A i \in DOMAIN procedures' :
            (i \notin DOMAIN procedures \/ procedures'[i] # procedures[i])
                => procedures'[i].user_email = signed_in
       /\ \A i \in DOMAIN projects' :
            (i \notin DOMAIN projects \/ projects'[i] # projects[i])
                => projects'[i].user_email = signed_in
       /\ fetch_user_data(None, profiles', FALSE) = << >>
       /\ fetch_user_data(None, rotations', FALSE) = << >>
       /\ fetch_user_data(None, procedures', FALSE) = << >>
       /\ fetch_user_data(None, projects', FALSE) = << >>]_vars

\* The tables hold rows of both users, and the dashboard shows rows.
C7_Witness ==
    /\ view.screen = "dashboard"
    /\ view.rotations # << >>
    /\ \E i \in DOMAIN rotations : rotations[i].user_email # signed_in
    /\ \E i \in DOMAIN rotations : rotations[i].user_email = signed_in

\* The rows of profiles with u's email.
ProfileRowsOf(u) == {i \in DOMAIN profiles : profiles[i].user_email = u}

\* C8: profiles holds at most one row per user_email, none before the user's
\* first save, and the row holds the tier and the country list of the user's
\* most recent save (so another user's saves never change it).
C8_OneProfilePerUser ==
    \A u \in Users :
        /\ Cardinality(ProfileRowsOf(u)) <= 1
        /\ last_save[u].saved <=> ProfileRowsOf(u) # {}
        /\ \A i \in ProfileRowsOf(u) :
             /\ profiles[i].global_tier = last_save[u].tier
             /\ profiles[i].selected_countries.type = "str"
             /\ JsonLoads(profiles[i].selected_countries.val)
                    = last_save[u].countries

\* A user saved twice: the second save met the row of the first.
C8_Witness ==
    /\ writes = 2
    /\ Len(profiles) = 1
    /\ rotations = << >> /\ procedures = << >> /\ projects = << >>

=============================================================================
